---- MODULE Spec2Model ----
(***************************************************************************)
(* Model of src/app.py: a read-only Flask facade over one shapefile.       *)
(* Every handler re-reads the shapefile, reprojects it to EPSG:4326 and    *)
(* builds one JSON response.  The shapefile is the only persistent state;  *)
(* a request in flight is represented by its response.                     *)
(*                                                                         *)
(* Numbers.  Areas are integers counted in thousandths of a coordinate    *)
(* unit squared (0.001 m2 in a metric system); figures rounded to two      *)
(* decimals are integers counted in hundredths; money is in whole FCFA;    *)
(* the uniform draw of random.random() is counted in hundredths.  Python's *)
(* round() is modelled exactly (round half to even) on these rationals.    *)
(***************************************************************************)
EXTENDS Integers, Sequences, FiniteSets, TLC

VARIABLES source, astype_null, request, response, area_crs, centroid_crs, draws,
          fault, tmp_file, workers

vars == <<source, astype_null, request, response, area_crs, centroid_crs, draws,
          fault, tmp_file, workers>>

----------------------------------------------------------------------------
(* Bounds of the model *)

MaxTotal == 3       \* features in the shapefile (pagination, lookup, search)
MaxPage == 3        \* largest page number requested
MaxPerPage == 2     \* largest per_page requested
MaxLargest == 4     \* features in the shapefile (largest)
MaxParcelles == 2   \* features in the shapefile (fiscal listing)
MaxWorkers == 2     \* requests the threaded server handles at the same time

----------------------------------------------------------------------------
(* Python arithmetic *)

Min(a, b) == IF a < b THEN a ELSE b

Abs(a) == IF a < 0 THEN 0 - a ELSE a

\* Python's a // b (floor division) for b # 0
PyFloorDiv(a, b) == IF b > 0 THEN a \div b ELSE (0 - a) \div (0 - b)

\* Python's round(): num/den rounded to the nearest integer, ties to even
\* (num >= 0, den > 0)
PyRound(num, den) ==
  LET q == num \div den
      r == num % den
  IN  IF 2 * r < den THEN q
      ELSE IF 2 * r > den THEN q + 1
      ELSE IF q % 2 = 0 THEN q ELSE q + 1

\* seq[start:stop] of Python and of DataFrame.iloc: negative positions count
\* from the end, both ends are clipped to [0, len]
PySliceBound(n, len) ==
  IF n < 0 THEN (IF n + len < 0 THEN 0 ELSE n + len)
  ELSE IF n > len THEN len ELSE n

PySlice(seq, start, stop) ==
  LET lo == PySliceBound(start, Len(seq))
      hi == PySliceBound(stop, Len(seq))
  IN  IF hi <= lo THEN << >> ELSE SubSeq(seq, lo + 1, hi)

----------------------------------------------------------------------------
(* The shapefile and the GeoDataFrame read from it *)

Null == <<"NULL">>                \* a missing attribute value (None / NaN)

NoCrs == "None"
EPSG4326 == "EPSG:4326"           \* geographic display reference system
Projected == "EPSG:32632"         \* a projected, metric reference system

\* A geometry is abstracted to the coordinates it is currently expressed in and
\* to its planar area in the source coordinates and in geographic coordinates.
Geometry(aSrc, aGeo) == [coords |-> "source", areaSrc |-> aSrc, areaGeo |-> aGeo]

\* GeoSeries.area / geometry.area: planar area in the current coordinates
area(geometry) ==
  IF geometry.coords = "source" THEN geometry.areaSrc ELSE geometry.areaGeo

\* gpd.read_file: rows indexed 0..n-1 in load order
read_file(src) ==
  [crs  |-> src.crs,
   rows |-> [i \in 1..Len(src.features) |->
               [index      |-> i - 1,
                properties |-> src.features[i].properties,
                geometry   |-> src.features[i].geometry]]]

\* gdf.to_crs(epsg=4326)
to_crs(gdf) ==
  [crs  |-> EPSG4326,
   rows |-> [i \in 1..Len(gdf.rows) |->
               [gdf.rows[i] EXCEPT !.geometry.coords = "geographic"]]]

\* if gdf.crs and gdf.crs.to_epsg() != 4326: gdf = gdf.to_crs(epsg=4326)
ConvertToWGS84(gdf) ==
  IF gdf.crs # NoCrs /\ gdf.crs # EPSG4326 THEN to_crs(gdf) ELSE gdf

\* json.loads(gdf.to_json())['features']: one GeoJSON feature per row, its id
\* the row's index label
to_json(rows) ==
  [i \in 1..Len(rows) |->
     [id         |-> rows[i].index,
      properties |-> rows[i].properties,
      geometry   |-> rows[i].geometry]]

\* Attribute columns of the shapefile: NOM holds text or a missing value,
\* MONTANT holds whole amounts of money
NomValues == {Null, <<"A", "n", "a">>, <<"N", "o", "e">>}

DefaultGeometry == Geometry(500000, 4)

Feature(nom, montant, geometry) ==
  [properties |-> [NOM |-> nom, MONTANT |-> montant], geometry |-> geometry]

Shapefile(crs, features) == [readable |-> TRUE, crs |-> crs, features |-> features]

\* a shapefile that gpd.read_file cannot open
Unreadable == [readable |-> FALSE, crs |-> NoCrs, features |-> << >>]

CrsValues == {NoCrs, EPSG4326, Projected}

\* all sequences of at most n elements of S
SeqUpTo(S, n) == UNION {[1..k -> S] : k \in 0..n}

----------------------------------------------------------------------------
(* Responses *)

NoResponse == [status |-> 0]

\* /tmp/FINBiyemassi.geojson before any export has written it
\* (owner: the request whose to_file created the file, 0 for a request handled
\* alone)
NoFile == [state |-> "absent", features |-> << >>, owner |-> 0]

Failure_200(message) == [status |-> 200, success |-> FALSE, error |-> message]

\* except Exception as e: return jsonify({"success": False, "error": str(e)}), 500
Failure(message) ==
  [status |-> 500, success |-> FALSE, error |-> message]

NotFound == [status |-> 404, success |-> FALSE, error |-> "Feature not found"]

Idle == response.status = 0

\* A fault of the geospatial library that the environment holds ready: none, a
\* reprojection that raises (gdf.to_crs), or a serialization that raises
\* (gdf.to_json, jsonify, gdf.to_file)
NoFault == "none"
Faults == {NoFault, "to_crs", "serialize"}

\* the handlers that call gdf.to_crs when the shapefile is not in EPSG:4326
Reprojecting ==
  {"/api/geojson", "/api/features", "/api/features/sample", "/api/features/<id>",
   "/api/bounds", "/api/search", "/api/largest", "/api/parcelles/with-status",
   "/api/export/geojson"}

\* the handler returned, or raised, before it reached the library call
EndedEarly(normal) ==
  \/ normal.status = 404
  \/ (normal.status = 500 /\ normal.error \in {"ValueError", "DriverError"})

\* The response of a handler whose try block runs with the fault flt ready:
\* normal is what the handler answers when the library raises nothing.  Every
\* library call of a handler is inside its try block, so a raise ends in the
\* except clause.
\* gdf.to_crs is called and raises
to_crs_raises(src, flt) ==
  flt = "to_crs" /\ src.crs # NoCrs /\ src.crs # EPSG4326

try_except(endpoint, src, flt, normal) ==
  IF EndedEarly(normal) THEN normal
  ELSE IF to_crs_raises(src, flt) /\ endpoint \in Reprojecting
       THEN Failure("CRSError")
  ELSE IF flt = "serialize" THEN Failure("TypeError")
  ELSE normal

----------------------------------------------------------------------------
(* GET /api/features *)

DefaultPage == 1
DefaultPerPage == 10

\* A query argument that int() is applied to: absent, not a number, or a number
Missing == [kind |-> "missing", value |-> 0]
Malformed == [kind |-> "malformed", value |-> 0]
IntText(n) == [kind |-> "int", value |-> n]

\* int(request.args.get(name, default)); raises ValueError on Malformed
IntArg(arg, default) == IF arg.kind = "missing" THEN default ELSE arg.value

total_pages_floor(len, per_page) == PyFloorDiv(len, per_page)

total_pages(len, per_page) == PyFloorDiv(len + per_page - 1, per_page)

get_features_response(src, page_arg, per_page_arg) ==
  LET page     == IntArg(page_arg, DefaultPage)
      per_page == IntArg(per_page_arg, DefaultPerPage)
  IN  IF page_arg = Malformed \/ per_page_arg = Malformed THEN Failure("ValueError")
      ELSE IF ~src.readable THEN Failure("DriverError")
      ELSE LET gdf       == ConvertToWGS84(read_file(src))
               start_idx == (page - 1) * per_page
               end_idx   == start_idx + per_page
               gdf_page  == PySlice(gdf.rows, start_idx, end_idx)
           IN  IF per_page = 0 THEN Failure("ZeroDivisionError")
               ELSE [status         |-> 200,
                     success        |-> TRUE,
                     page           |-> page,
                     per_page       |-> per_page,
                     total_features |-> Len(gdf.rows),
                     total_pages    |-> total_pages(Len(gdf.rows), per_page),
                     features       |-> to_json(gdf_page)]

PageArgs == {Missing, Malformed} \cup {IntText(n) : n \in -1..MaxPage}
PerPageArgs == {Missing, Malformed} \cup {IntText(n) : n \in -1..MaxPerPage}

get_features ==
  /\ Idle
  /\ \E page_arg \in PageArgs, per_page_arg \in PerPageArgs :
       /\ request' = [endpoint |-> "/api/features",
                      page |-> page_arg, per_page |-> per_page_arg]
       /\ response' = try_except("/api/features", source, fault,
                                 get_features_response(source, page_arg, per_page_arg))
  /\ UNCHANGED <<source, astype_null, area_crs, centroid_crs, draws>>
  /\ UNCHANGED <<fault, tmp_file, workers>>

----------------------------------------------------------------------------
(* GET /api/features/<int:feature_id> *)

get_feature_missing_low(feature_id, len) == feature_id >= len

get_feature_missing(feature_id, len) == feature_id < 0 \/ feature_id >= len

get_feature_response(src, feature_id) ==
  IF ~src.readable THEN Failure("DriverError")
  ELSE LET gdf0 == read_file(src)
       IN  IF get_feature_missing(feature_id, Len(gdf0.rows)) THEN NotFound
           ELSE LET gdf     == ConvertToWGS84(gdf0)
                    feature == PySlice(gdf.rows, feature_id, feature_id + 1)
                IN  IF Len(feature) = 0 THEN Failure("IndexError")
                    ELSE [status  |-> 200,
                          success |-> TRUE,
                          feature |-> to_json(feature)[1]]

get_feature ==
  /\ Idle
  /\ \E feature_id \in -1..(MaxTotal + 1) :
       /\ request' = [endpoint |-> "/api/features/<id>", feature_id |-> feature_id]
       /\ response' = try_except("/api/features/<id>", source, fault,
                                 get_feature_response(source, feature_id))
  /\ UNCHANGED <<source, astype_null, area_crs, centroid_crs, draws>>
  /\ UNCHANGED <<fault, tmp_file, workers>>

----------------------------------------------------------------------------
(* GET /api/search *)

\* str.lower() on the letters the model's texts use
UpperToLower ==
  [c \in {"A", "N", "P", "O", "L", "Y", "G"} |->
     CASE c = "A" -> "a" [] c = "N" -> "n" [] c = "P" -> "p" [] c = "O" -> "o"
       [] c = "L" -> "l" [] c = "Y" -> "y" [] c = "G" -> "g"]

lower(c) == IF c \in DOMAIN UpperToLower THEN UpperToLower[c] ELSE c

DigitChars == <<"0", "1", "2", "3", "4", "5", "6", "7", "8", "9">>

\* str(n) for an integer n >= 0
RECURSIVE str(_)
str(n) == IF n < 10 THEN <<DigitChars[n + 1]>>
          ELSE Append(str(n \div 10), DigitChars[(n % 10) + 1])

\* str(geometry): the WKT text (the coordinates are left out)
WKT(geometry) == <<"P", "O", "L", "Y", "G", "O", "N">>

\* the columns of the GeoDataFrame
columns == {"NOM", "MONTANT", "geometry"}

cell(row, key) == IF key = "geometry" THEN row.geometry ELSE row.properties[key]

\* Series.astype(str) on one cell.  A missing value becomes the text "None" or
\* "nan", or stays missing, depending on the column's dtype and the pandas
\* version: astype_null holds what this build does.
astype_str(key, value) ==
  IF key = "geometry" THEN WKT(value)
  ELSE IF key = "MONTANT" THEN str(value)
  ELSE IF value = Null THEN astype_null
  ELSE value

\* one character of a pattern against one character of the text, re.IGNORECASE:
\* "." stands for any character, the other characters of the model for themselves
re_char(pc, tc) == pc = "." \/ lower(pc) = lower(tc)

\* re.search(pat, text, re.IGNORECASE) for a pattern of plain characters and "."
re_search(pat, text) ==
  \E i \in 0..(Len(text) - Len(pat)) :
    \A j \in 1..Len(pat) : re_char(pat[j], text[i + j])

\* Series.str.contains(value, case=False, na=False) on one cell
str_contains(text, pat) ==
  IF text = Null THEN FALSE ELSE re_search(pat, text)

\* for key, value in query_params.items(): if key in gdf.columns: filter
RECURSIVE apply_filters(_, _, _)
apply_filters(rows, query_params, keys) ==
  IF keys = {} THEN rows
  ELSE LET key  == CHOOSE k \in keys : TRUE
           kept == IF key \in columns
                   THEN SelectSeq(rows, LAMBDA row :
                          str_contains(astype_str(key, cell(row, key)),
                                       query_params[key]))
                   ELSE rows
       IN  apply_filters(kept, query_params, keys \ {key})

search_features_response(src, query_params) ==
  IF ~src.readable THEN Failure("DriverError")
  ELSE LET gdf          == ConvertToWGS84(read_file(src))
           filtered_gdf == apply_filters(gdf.rows, query_params, DOMAIN query_params)
       IN  [status        |-> 200,
            success       |-> TRUE,
            total_results |-> Len(filtered_gdf),
            features      |-> to_json(filtered_gdf)]

SearchKeys == {"NOM", "MONTANT", "geometry", "zone"}

Patterns == { << >>, <<"a", "N">>, <<"n", ".">>, <<"o", "n">>, <<"5">> }

QueryParams == UNION {[keys -> Patterns] : keys \in SUBSET SearchKeys}

search_features ==
  /\ Idle
  /\ \E query_params \in QueryParams :
       /\ request' = [endpoint |-> "/api/search", query_params |-> query_params]
       /\ response' = try_except("/api/search", source, fault,
                                 search_features_response(source, query_params))
  /\ UNCHANGED <<source, astype_null, area_crs, centroid_crs, draws>>
  /\ UNCHANGED <<fault, tmp_file, workers>>

----------------------------------------------------------------------------
(* GET /api/largest *)

LargestN == 3

NaN == "NaN"

\* round(x, 2) of an area counted in thousandths: the figure in hundredths
round2(a) == PyRound(a, 10)

\* round(x / 10000, 2): hectares, in hundredths, of an area in thousandths of m2
round2_ha_1000(a) == PyRound(a, 10000)

round2_ha(a) == PyRound(a, 100000)

\* gdf_working['area_m2'] = gdf_working.geometry.area
with_area_m2(rows) ==
  [i \in 1..Len(rows) |->
     [index      |-> rows[i].index,
      properties |-> rows[i].properties,
      geometry   |-> rows[i].geometry,
      area_m2    |-> area(rows[i].geometry)]]

\* rows without the one at position i
Without(rows, i) == SubSeq(rows, 1, i - 1) \o SubSeq(rows, i + 1, Len(rows))

first_largest_keep_last(rows) ==
  CHOOSE i \in 1..Len(rows) :
    \A j \in 1..Len(rows) :
      \/ rows[i].area_m2 > rows[j].area_m2
      \/ (rows[i].area_m2 = rows[j].area_m2 /\ i >= j)

\* position of the row nlargest takes first: the greatest area_m2, and the
\* earliest such row (keep='first')
first_largest(rows) ==
  CHOOSE i \in 1..Len(rows) :
    \A j \in 1..Len(rows) :
      \/ rows[i].area_m2 > rows[j].area_m2
      \/ (rows[i].area_m2 = rows[j].area_m2 /\ i <= j)

\* DataFrame.nlargest(n, 'area_m2')
RECURSIVE nlargest(_, _)
nlargest(n, rows) ==
  IF n = 0 \/ Len(rows) = 0 THEN << >>
  ELSE LET i == first_largest(rows)
       IN  <<rows[i]>> \o nlargest(n - 1, Without(rows, i))

RECURSIVE series_sum(_)
series_sum(rows) ==
  IF Len(rows) = 0 THEN 0 ELSE rows[1].area_m2 + series_sum(Tail(rows))

\* Series.max() and Series.min(), for a series that is not empty
series_max(rows) ==
  CHOOSE a \in {rows[i].area_m2 : i \in 1..Len(rows)} :
    \A i \in 1..Len(rows) : rows[i].area_m2 <= a

series_min(rows) ==
  CHOOSE a \in {rows[i].area_m2 : i \in 1..Len(rows)} :
    \A i \in 1..Len(rows) : rows[i].area_m2 >= a

\* round(Series.mean(), 2) and round(Series.mean() / 10000, 2): the sum over the
\* count, rounded once
mean_round2_of_n(rows) == PyRound(series_sum(rows), 10 * LargestN)

mean_round2(rows) == PyRound(series_sum(rows), 10 * Len(rows))

mean_round2_ha(rows) == PyRound(series_sum(rows), 100000 * Len(rows))

\* the area_summary of the response; max, min and mean of an empty series are NaN
area_summary(largest_parcels) ==
  IF Len(largest_parcels) = 0
  THEN [max_area_m2 |-> NaN, max_area_ha |-> NaN,
        min_area_m2 |-> NaN, min_area_ha |-> NaN,
        average_area_m2 |-> NaN, average_area_ha |-> NaN]
  ELSE [max_area_m2     |-> round2(series_max(largest_parcels)),
        max_area_ha     |-> round2_ha(series_max(largest_parcels)),
        min_area_m2     |-> round2(series_min(largest_parcels)),
        min_area_ha     |-> round2_ha(series_min(largest_parcels)),
        average_area_m2 |-> mean_round2(largest_parcels),
        average_area_ha |-> mean_round2_ha(largest_parcels)]

\* the GeoJSON features of the largest parcels, with area_m2, area_ha and rank
\* added to their properties
features_with_area(largest_parcels) ==
  [i \in 1..Len(largest_parcels) |->
     [id         |-> largest_parcels[i].index,
      geometry   |-> largest_parcels[i].geometry,
      properties |-> [NOM     |-> largest_parcels[i].properties.NOM,
                      MONTANT |-> largest_parcels[i].properties.MONTANT,
                      area_m2 |-> round2(largest_parcels[i].area_m2),
                      area_ha |-> round2_ha(largest_parcels[i].area_m2),
                      rank    |-> i]]]

get_largest_parcels_response(src) ==
  IF ~src.readable THEN Failure("DriverError")
  ELSE LET gdf             == ConvertToWGS84(read_file(src))
           gdf_working     == with_area_m2(gdf.rows)
           largest_parcels == nlargest(LargestN, gdf_working)
       IN  [status          |-> 200,
            success         |-> TRUE,
            total_features  |-> Len(gdf.rows),
            largest_parcels |-> features_with_area(largest_parcels),
            area_summary    |-> area_summary(largest_parcels)]

\* the reference system the collection is in when geometry.area is taken
get_largest_parcels_area_crs(src) == ConvertToWGS84(read_file(src)).crs

get_largest_parcels ==
  /\ Idle
  /\ request' = [endpoint |-> "/api/largest"]
  /\ response' = try_except("/api/largest", source, fault,
                            get_largest_parcels_response(source))
  /\ area_crs' = IF source.readable /\ ~to_crs_raises(source, fault)
                 THEN get_largest_parcels_area_crs(source)
                 ELSE "none"
  /\ UNCHANGED <<source, astype_null, centroid_crs, draws>>
  /\ UNCHANGED <<fault, tmp_file, workers>>

----------------------------------------------------------------------------
(* GET /api/parcelles/with-status *)

\* random.uniform(100, 1000): some rates of the range
RateValues == {100, 999}

\* random.random(), in hundredths: the values on both sides of 0.4 and of 0.75
RandValues == {39, 40, 74, 75}

MoisMin == 1
MoisMax == 6
AnneesMin == 1
AnneesMax == 3

\* the thresholds of rand_val, in hundredths
SeuilAJour == 40
SeuilEnRetard == 75

statut_le(rand_val) ==
  IF rand_val <= SeuilAJour THEN "a_jour"
  ELSE IF rand_val <= SeuilEnRetard THEN "en_retard"
  ELSE "impaye"

statut(rand_val) ==
  IF rand_val < SeuilAJour THEN "a_jour"
  ELSE IF rand_val < SeuilEnRetard THEN "en_retard"
  ELSE "impaye"

\* the draws one row consumes: prix_m2, rand_val, then mois_retard for a late
\* parcel or annees_impayees for an unpaid one (0 stands for "not drawn")
Draws ==
  {d \in [prix_m2 : RateValues, rand_val : RandValues,
          mois_retard : 0..MoisMax, annees_impayees : 0..AnneesMax] :
     /\ (d.mois_retard # 0) <=> (statut(d.rand_val) = "en_retard")
     /\ (d.annees_impayees # 0) <=> (statut(d.rand_val) = "impaye")
     /\ d.mois_retard # 0 => d.mois_retard >= MoisMin
     /\ d.annees_impayees # 0 => d.annees_impayees >= AnneesMin}

impot_annuel_100(superficie, prix_m2) == PyRound(superficie * prix_m2, 10000) * 100

\* round(superficie * prix_m2 / 1000) * 1000, superficie in hundredths of m2
impot_annuel(superficie, prix_m2) == PyRound(superficie * prix_m2, 100000) * 1000

montant_du(stat, impot, d) ==
  IF stat = "a_jour" THEN 0
  ELSE IF stat = "en_retard" THEN PyRound(impot * d.mois_retard, 12)
  ELSE impot * d.annees_impayees

\* f'{idx:04d}'
Pad4(idx) ==
  LET digits == str(idx)
  IN  [i \in 1..(4 - Len(digits)) |-> "0"] \o digits

\* str(value) of a cell of the row: a missing value prints as None
py_str(value) == IF value = Null THEN <<"N", "o", "n", "e">> ELSE value

\* one iteration of the loop over gdf.iterrows()
parcelle_data(row, d) ==
  LET idx          == row.index
      superficie   == round2(area(row.geometry))
      impot        == impot_annuel(superficie, d.prix_m2)
      stat         == statut(d.rand_val)
  IN  [id              |-> idx,
       numero          |-> <<"P", "A", "R", "C", "_">> \o Pad4(idx),
       proprietaireNom |-> py_str(row.properties.NOM),
       adresse         |-> "Biyem-Assi, Yaounde",
       superficie      |-> superficie,
       impotAnnuel     |-> impot,
       montantDu       |-> montant_du(stat, impot, d),
       statut          |-> stat,
       centroid        |-> row.geometry.coords,
       geometry        |-> row.geometry]

count_statut(parcelles, stat) ==
  Cardinality({i \in 1..Len(parcelles) : parcelles[i].statut = stat})

RECURSIVE sum_field(_, _)
sum_field(parcelles, field) ==
  IF Len(parcelles) = 0 THEN 0
  ELSE parcelles[1][field] + sum_field(Tail(parcelles), field)

taux_conformite_ratio(a_jour, total) ==
  IF total > 0 THEN PyRound(10 * a_jour, total) ELSE 0

\* round((parcelles_a_jour / total_parcelles) * 100, 1) if total_parcelles > 0
\* else 0, in tenths
taux_conformite(a_jour, total) ==
  IF total > 0 THEN PyRound(1000 * a_jour, total) ELSE 0

get_parcelles_with_status_response(src, ds) ==
  IF ~src.readable THEN Failure("DriverError")
  ELSE LET gdf       == ConvertToWGS84(read_file(src))
           parcelles == [i \in 1..Len(gdf.rows) |-> parcelle_data(gdf.rows[i], ds[i])]
           total     == Len(parcelles)
           a_jour    == count_statut(parcelles, "a_jour")
       IN  [status    |-> 200,
            success   |-> TRUE,
            total     |-> total,
            stats     |-> [parcellesAJour    |-> a_jour,
                           parcellesEnRetard |-> count_statut(parcelles, "en_retard"),
                           parcellesImpayees |-> count_statut(parcelles, "impaye"),
                           totalRevenu       |-> sum_field(parcelles, "impotAnnuel"),
                           totalDu           |-> sum_field(parcelles, "montantDu"),
                           tauxConformite    |-> taux_conformite(a_jour, total)],
            parcelles |-> parcelles]

\* the reference system the collection is in inside the loop, where
\* row.geometry.area and row.geometry.centroid are taken
get_parcelles_with_status_crs(src) ==
  IF src.readable /\ Len(src.features) > 0
  THEN ConvertToWGS84(read_file(src)).crs
  ELSE "none"

get_parcelles_with_status ==
  /\ Idle
  /\ \E ds \in [1..(IF source.readable THEN Len(source.features) ELSE 0) -> Draws] :
       /\ draws' = ds
       /\ response' = try_except("/api/parcelles/with-status", source, fault,
                                 get_parcelles_with_status_response(source, ds))
  /\ request' = [endpoint |-> "/api/parcelles/with-status"]
  /\ area_crs' = IF to_crs_raises(source, fault) THEN "none"
                 ELSE get_parcelles_with_status_crs(source)
  /\ centroid_crs' = IF to_crs_raises(source, fault) THEN "none"
                     ELSE get_parcelles_with_status_crs(source)
  /\ UNCHANGED <<source, astype_null, fault, tmp_file, workers>>

----------------------------------------------------------------------------
(* The other endpoints *)

SampleSize == 3
AttributeSamples == 3

\* GET /: the documentation of the API; nothing is read
index_response == [status |-> 200, api |-> "ArcGIS Shapefile API", version |-> "1.0"]

index ==
  /\ Idle
  /\ request' = [endpoint |-> "/"]
  /\ response' = index_response
  /\ UNCHANGED <<source, astype_null, area_crs, centroid_crs, draws>>
  /\ UNCHANGED <<fault, tmp_file, workers>>

\* GET /api/map: a constant HTML page; nothing is read
show_map_response == [status |-> 200, html |-> "Carte ArcGIS - Biyem-Assi"]

show_map ==
  /\ Idle
  /\ request' = [endpoint |-> "/api/map"]
  /\ response' = show_map_response
  /\ UNCHANGED <<source, astype_null, area_crs, centroid_crs, draws>>
  /\ UNCHANGED <<fault, tmp_file, workers>>

\* GET /api/info
get_info_response(src) ==
  IF ~src.readable THEN Failure("DriverError")
  ELSE LET gdf == read_file(src)
       IN  [status  |-> 200,
            success |-> TRUE,
            data    |-> [name           |-> "FINBiyemassi",
                         total_features |-> Len(gdf.rows),
                         crs            |-> gdf.crs,
                         columns        |-> columns]]

get_info ==
  /\ Idle
  /\ request' = [endpoint |-> "/api/info"]
  /\ response' = try_except("/api/info", source, fault, get_info_response(source))
  /\ UNCHANGED <<source, astype_null, area_crs, centroid_crs, draws>>
  /\ UNCHANGED <<fault, tmp_file, workers>>

\* GET /api/geojson
get_geojson_response(src) ==
  IF ~src.readable THEN Failure("DriverError")
  ELSE LET gdf == ConvertToWGS84(read_file(src))
       IN  [status         |-> 200,
            success        |-> TRUE,
            type           |-> "FeatureCollection",
            features       |-> to_json(gdf.rows),
            total_features |-> Len(gdf.rows)]

get_geojson ==
  /\ Idle
  /\ request' = [endpoint |-> "/api/geojson"]
  /\ response' = try_except("/api/geojson", source, fault,
                            get_geojson_response(source))
  /\ UNCHANGED <<source, astype_null, area_crs, centroid_crs, draws>>
  /\ UNCHANGED <<fault, tmp_file, workers>>

\* GET /api/features/sample
get_sample_features_response(src) ==
  IF ~src.readable THEN Failure("DriverError")
  ELSE LET gdf         == ConvertToWGS84(read_file(src))
           sample_size == Min(SampleSize, Len(gdf.rows))
       IN  [status         |-> 200,
            success        |-> TRUE,
            total_features |-> Len(gdf.rows),
            sample_size    |-> sample_size,
            features       |-> to_json(SubSeq(gdf.rows, 1, sample_size))]

get_sample_features ==
  /\ Idle
  /\ request' = [endpoint |-> "/api/features/sample"]
  /\ response' = try_except("/api/features/sample", source, fault,
                            get_sample_features_response(source))
  /\ UNCHANGED <<source, astype_null, area_crs, centroid_crs, draws>>
  /\ UNCHANGED <<fault, tmp_file, workers>>

\* GET /api/bounds: the envelope of the collection, abstracted to the
\* coordinates it is expressed in
get_bounds_response(src) ==
  IF ~src.readable THEN Failure("DriverError")
  ELSE LET gdf == ConvertToWGS84(read_file(src))
       IN  [status  |-> 200,
            success |-> TRUE,
            bounds  |-> [coords |-> {gdf.rows[i].geometry.coords :
                                       i \in 1..Len(gdf.rows)}]]

get_bounds ==
  /\ Idle
  /\ request' = [endpoint |-> "/api/bounds"]
  /\ response' = try_except("/api/bounds", source, fault, get_bounds_response(source))
  /\ UNCHANGED <<source, astype_null, area_crs, centroid_crs, draws>>
  /\ UNCHANGED <<fault, tmp_file, workers>>

\* gdf[col].head(3).fillna('N/A').tolist()
sample_values(rows, col) ==
  [i \in 1..Min(AttributeSamples, Len(rows)) |->
     IF col = "NOM" /\ rows[i].properties[col] = Null
     THEN <<"N", "/", "A">>
     ELSE rows[i].properties[col]]

\* GET /api/attributes
get_attributes_response(src) ==
  IF ~src.readable THEN Failure("DriverError")
  ELSE LET gdf == read_file(src)
       IN  [status     |-> 200,
            success    |-> TRUE,
            attributes |-> [col \in columns \ {"geometry"} |->
                              [sample_values |-> sample_values(gdf.rows, col)]]]

get_attributes ==
  /\ Idle
  /\ request' = [endpoint |-> "/api/attributes"]
  /\ response' = try_except("/api/attributes", source, fault,
                            get_attributes_response(source))
  /\ UNCHANGED <<source, astype_null, area_crs, centroid_crs, draws>>
  /\ UNCHANGED <<fault, tmp_file, workers>>

\* GET /api/export/geojson.  The handler writes the collection to the fixed path
\* /tmp/FINBiyemassi.geojson and sends that file.
\* gdf.to_file(output_path, driver='GeoJSON'), once it has finished
written_file(gdf) ==
  [state |-> "complete", features |-> to_json(gdf.rows), owner |-> 0]

\* send_file(output_path, ...): the attachment holds what the file holds; a file
\* that is not there raises FileNotFoundError
send_file(file) ==
  IF file.state = "absent" THEN Failure("FileNotFoundError")
  ELSE [status |-> 200, attachment |-> file]

export_geojson_response(src) ==
  IF ~src.readable THEN Failure("DriverError")
  ELSE send_file(written_file(ConvertToWGS84(read_file(src))))

\* the file the handler leaves behind: written unless the handler raised before
\* or inside to_file
export_geojson_file(src, flt, file) ==
  IF ~src.readable \/ to_crs_raises(src, flt) \/ flt = "serialize" THEN file
  ELSE written_file(ConvertToWGS84(read_file(src)))

export_geojson ==
  /\ Idle
  /\ request' = [endpoint |-> "/api/export/geojson"]
  /\ response' = try_except("/api/export/geojson", source, fault,
                            export_geojson_response(source))
  /\ tmp_file' = export_geojson_file(source, fault, tmp_file)
  /\ UNCHANGED <<source, astype_null, area_crs, centroid_crs, draws>>
  /\ UNCHANGED <<fault, workers>>

----------------------------------------------------------------------------
(* The server returns the response and waits for the next request *)

NoRequest == [endpoint |-> "none"]

\* the handler's locals die with the request; the shapefile stays as it was
run ==
  /\ ~Idle
  /\ request' = NoRequest
  /\ response' = NoResponse
  /\ area_crs' = "none"
  /\ centroid_crs' = "none"
  /\ draws' = << >>
  /\ UNCHANGED <<source, astype_null, fault, tmp_file, workers>>

----------------------------------------------------------------------------
(* Pagination and lookup by index *)

FeaturesSources ==
  {Unreadable} \cup
  {Shapefile(crs, fs) :
     crs \in CrsValues,
     fs \in SeqUpTo({Feature(nom, 0, DefaultGeometry) : nom \in NomValues}, MaxTotal)}

InitCommon ==
  /\ astype_null \in {Null}
  /\ request = NoRequest
  /\ response = NoResponse
  /\ area_crs = "none"
  /\ centroid_crs = "none"
  /\ draws = << >>
  /\ fault = NoFault
  /\ tmp_file = NoFile
  /\ workers = << >>

InitFeatures == source \in FeaturesSources /\ InitCommon

NextFeatures == get_features \/ get_feature \/ run

SpecFeatures == InitFeatures /\ [][NextFeatures]_vars

\* the features a success response of /api/features must hold for page p and
\* per_page pp: the positions [(p-1)*pp, p*pp) that lie in [0, total)
PagePositions(p, pp, total) ==
  {i \in 0..(total - 1) : (p - 1) * pp <= i /\ i < p * pp}

PositiveArg(arg) == arg.kind = "missing" \/ (arg.kind = "int" /\ arg.value >= 1)

\* C1: for positive page and per_page the response of /api/features is a success
\* that holds exactly the features at positions [(page-1)*per_page, page*per_page)
\* clipped to [0, total), in load order, and total_pages is ceil(total/per_page);
\* a page past the end is an empty success.
C1_Paginate ==
  (/\ request.endpoint = "/api/features"
   /\ source.readable
   /\ PositiveArg(request.page)
   /\ PositiveArg(request.per_page))
  => LET p     == IntArg(request.page, DefaultPage)
         pp    == IntArg(request.per_page, DefaultPerPage)
         total == Len(source.features)
         want  == PagePositions(p, pp, total)
         got   == response.features
     IN  /\ response.status = 200
         /\ response.success
         /\ Len(got) = Cardinality(want)
         /\ \A k \in 1..Len(got) :
              /\ got[k].id = (p - 1) * pp + k - 1
              /\ got[k].id \in want
              /\ got[k].properties = source.features[got[k].id + 1].properties
         /\ response.total_features = total
         /\ response.total_pages * pp >= total
         /\ (response.total_pages - 1) * pp < total

\* a last page clipped by the end of the collection, and a page past the end
C1_Witness ==
  /\ request.endpoint = "/api/features"
  /\ source.readable
  /\ PositiveArg(request.page) /\ PositiveArg(request.per_page)
  /\ request.page.kind = "int" /\ request.page.value = 2
  /\ request.per_page.kind = "int" /\ request.per_page.value = 2
  /\ Len(source.features) = 3
  /\ response.status = 200
  /\ Len(response.features) = 1
  /\ response.features[1].id = 2
  /\ response.total_pages = 2

\* C2: /api/features/<id> answers not-found when id < 0 or id >= total, and
\* otherwise succeeds with exactly the feature at position id.
C2_GetByIndex ==
  (request.endpoint = "/api/features/<id>" /\ source.readable)
  => LET id    == request.feature_id
         total == Len(source.features)
     IN  IF id < 0 \/ id >= total
         THEN response.status = 404 /\ ~response.success
         ELSE /\ response.status = 200
              /\ response.success
              /\ response.feature.id = id
              /\ response.feature.properties = source.features[id + 1].properties

C2_Witness ==
  /\ request.endpoint = "/api/features/<id>"
  /\ source.readable
  /\ request.feature_id = 2
  /\ Len(source.features) = 3
  /\ source.features[3].properties.NOM # source.features[1].properties.NOM
  /\ response.status = 200
  /\ response.feature.id = 2

----------------------------------------------------------------------------
(* Search *)

SearchSources ==
  {Unreadable} \cup
  {Shapefile(Projected, fs) :
     fs \in SeqUpTo({Feature(nom, 25000, DefaultGeometry) : nom \in NomValues},
                    MaxTotal)}

\* what Series.astype(str) makes of a missing value
NullCoercions == {Null, <<"N", "o", "n", "e">>, <<"n", "a", "n">>}

InitSearch ==
  /\ source \in SearchSources
  /\ astype_null \in NullCoercions
  /\ request = NoRequest
  /\ response = NoResponse
  /\ area_crs = "none"
  /\ centroid_crs = "none"
  /\ draws = << >>
  /\ fault = NoFault
  /\ tmp_file = NoFile
  /\ workers = << >>

NextSearch == search_features \/ run

SpecSearch == InitSearch /\ [][NextSearch]_vars

AttributeColumns == {"NOM", "MONTANT"}

\* text contains pat as a substring, letter case ignored
ContainsIgnoreCase(text, pat) ==
  \E i \in 0..(Len(text) - Len(pat)) :
    \A j \in 1..Len(pat) : lower(pat[j]) = lower(text[i + j])

\* the value a feature of the shapefile has for an attribute column, as text
TextOf(col, value) == IF col = "MONTANT" THEN str(value) ELSE value

\* feature passes the filter {col: pat} as the specification words it
Present(col, value) == col = "MONTANT" \/ value # Null

Passes(feature, col, pat) ==
  /\ Present(col, feature.properties[col])
  /\ ContainsIgnoreCase(TextOf(col, feature.properties[col]), pat)

ReturnedIds == {response.features[k].id : k \in 1..Len(response.features)}

\* C3: with filters on attribute columns only, a feature is returned if and only
\* if, for every filter, its value is present and contains the pattern,
\* case-insensitively; a feature whose value is missing is never returned.
C3_Search ==
  (/\ request.endpoint = "/api/search"
   /\ source.readable
   /\ DOMAIN request.query_params # {}
   /\ DOMAIN request.query_params \subseteq AttributeColumns)
  => \A i \in 1..Len(source.features) :
       (i - 1) \in ReturnedIds
       <=> \A col \in DOMAIN request.query_params :
             Passes(source.features[i], col, request.query_params[col])

----------------------------------------------------------------------------
(* Largest parcels *)

\* parcels by their area in the source coordinates and in geographic coordinates
LargestGeometries ==
  {Geometry(500000, 12), Geometry(1500000, 4), Geometry(1000000, 8),
   Geometry(1234565, 4)}

LargestSources ==
  {Unreadable} \cup
  {Shapefile(crs, fs) :
     crs \in CrsValues,
     fs \in SeqUpTo({Feature(Null, 0, g) : g \in LargestGeometries}, MaxLargest)}

InitLargest == source \in LargestSources /\ InitCommon

NextLargest == get_largest_parcels \/ run

SpecLargest == InitLargest /\ [][NextLargest]_vars

\* the area the handler computed for the feature at position id: the planar
\* area of its geometry in the collection the handler works on
WorkingArea(id) ==
  area(ConvertToWGS84(read_file(source)).rows[id + 1].geometry)

LargestIds ==
  {response.largest_parcels[r].id : r \in 1..Len(response.largest_parcels)}

\* feature a comes before feature b: greater area, or equal area and lower index
Before(a, b) ==
  \/ WorkingArea(a) > WorkingArea(b)
  \/ (WorkingArea(a) = WorkingArea(b) /\ a < b)

\* C5: /api/largest returns exactly min(3, total) features, those of greatest
\* computed area, in descending area order with rank 1..k, a lower original
\* index first among equal areas.
C5_Largest ==
  (request.endpoint = "/api/largest" /\ source.readable)
  => LET lp    == response.largest_parcels
         total == Len(source.features)
     IN  /\ response.status = 200
         /\ Len(lp) = Min(LargestN, total)
         /\ \A r \in 1..Len(lp) :
              /\ lp[r].id \in 0..(total - 1)
              /\ lp[r].properties.rank = r
              /\ 2 * Abs(10 * lp[r].properties.area_m2 - WorkingArea(lp[r].id)) <= 10
         /\ \A r, t \in 1..Len(lp) : r < t => Before(lp[r].id, lp[t].id)
         /\ \A out \in (0..(total - 1)) \ LargestIds :
              \A r \in 1..Len(lp) : Before(lp[r].id, out)

\* four features, two of them tied for the third place: the earlier one is kept
C5_Witness ==
  /\ request.endpoint = "/api/largest"
  /\ source.readable
  /\ Len(source.features) = 4
  /\ response.status = 200
  /\ Len(response.largest_parcels) = 3
  /\ \E out \in (0..3) \ LargestIds :
       /\ WorkingArea(out) = WorkingArea(response.largest_parcels[3].id)
       /\ response.largest_parcels[3].id < out
  /\ WorkingArea(response.largest_parcels[1].id)
       > WorkingArea(response.largest_parcels[3].id)

\* the areas the handler computed for the returned features, in rank order
ReturnedAreas ==
  [r \in 1..Len(response.largest_parcels) |->
     WorkingArea(response.largest_parcels[r].id)]

RECURSIVE Sum(_)
Sum(seq) == IF Len(seq) = 0 THEN 0 ELSE seq[1] + Sum(Tail(seq))

\* figure (in hundredths) is value/unit rounded to the nearest hundredth
RoundedTo(figure, value, unit) == 2 * Abs(figure * unit - value) <= unit

\* C6 (amended): the summary is taken over the returned top-3 features only:
\* max and min are the areas of the first and of the last returned feature,
\* the average is their sum over their count, each rounded to 2 decimals, and
\* each hectare figure is the same m2 value divided by 10000 and rounded to 2
\* decimals.
C6_Summary ==
  (/\ request.endpoint = "/api/largest"
   /\ source.readable
   /\ Len(source.features) > 0)
  => LET lp  == response.largest_parcels
         k   == Len(lp)
         sum == response.area_summary
     IN  /\ sum.max_area_m2 = lp[1].properties.area_m2
         /\ sum.min_area_m2 = lp[k].properties.area_m2
         /\ RoundedTo(sum.max_area_m2, ReturnedAreas[1], 10)
         /\ RoundedTo(sum.min_area_m2, ReturnedAreas[k], 10)
         /\ RoundedTo(sum.average_area_m2, Sum(ReturnedAreas), 10 * k)
         /\ RoundedTo(sum.max_area_ha, ReturnedAreas[1], 100000)
         /\ RoundedTo(sum.min_area_ha, ReturnedAreas[k], 100000)
         /\ RoundedTo(sum.average_area_ha, Sum(ReturnedAreas), 100000 * k)

\* four features, the smallest left out of the summary, and a maximum whose
\* hectare figure is rounded
C6_Witness ==
  /\ request.endpoint = "/api/largest"
  /\ source.readable
  /\ Len(source.features) = 4
  /\ response.status = 200
  /\ \E out \in (0..3) \ LargestIds :
       10 * response.area_summary.min_area_m2 > WorkingArea(out)
  /\ response.area_summary.max_area_m2 > response.area_summary.min_area_m2
  /\ response.area_summary.max_area_ha * 10000 # response.area_summary.max_area_m2

\* the areas of the specification's example, in thousandths of m2
ExampleAreas == <<500000, 1500000, 1000000>>

\* C6 as stated: each hectare figure equals the m2 figure divided by 10000, and
\* areas {500, 1500, 1000} give max 1500, min 1000, average 1250.
C6_AsStated ==
  (/\ request.endpoint = "/api/largest"
   /\ source.readable
   /\ Len(source.features) > 0)
  => LET sum == response.area_summary
     IN  /\ sum.max_area_ha * 10000 = sum.max_area_m2
         /\ sum.min_area_ha * 10000 = sum.min_area_m2
         /\ sum.average_area_ha * 10000 = sum.average_area_m2
         /\ (/\ Len(source.features) = 3
             /\ \A i \in 1..3 : WorkingArea(i - 1) = ExampleAreas[i])
            => /\ sum.max_area_m2 = 150000
               /\ sum.min_area_m2 = 100000
               /\ sum.average_area_m2 = 125000

\* C7: whenever a handler has taken areas, the collection was still in the
\* reference system of the shapefile; whenever it has taken centroids, the
\* collection had been reprojected to the geographic reference system.
C7_AreaInSourceCrs ==
  /\ area_crs # "none" => area_crs = source.crs
  /\ (centroid_crs # "none" /\ source.crs # NoCrs) => centroid_crs = EPSG4326

----------------------------------------------------------------------------
(* Fiscal listing *)

\* a parcel of 500 m2; a parcel of 0.004 m2 that carries an amount of money; in
\* geographic coordinates the first is tiny and the second is not
FiscalFeatures ==
  {Feature(<<"A", "n", "a">>, 0, Geometry(500000, 4)),
   Feature(Null, 25000, Geometry(4, 1234565))}

FiscalSources ==
  {Unreadable} \cup
  {Shapefile(crs, fs) :
     crs \in {EPSG4326, Projected}, fs \in SeqUpTo(FiscalFeatures, MaxParcelles)}

InitFiscal == source \in FiscalSources /\ InitCommon

NextFiscal == get_parcelles_with_status \/ run

SpecFiscal == InitFiscal /\ [][NextFiscal]_vars

FiscalDone ==
  /\ request.endpoint = "/api/parcelles/with-status"
  /\ source.readable

Records == response.parcelles

\* owed is impot * mois / 12 rounded to the nearest integer
OwedForMonths(owed, impot, mois) == 2 * Abs(12 * owed - impot * mois) <= 12

\* the status the draw r (in hundredths) stands for
StatusOfDraw(r) ==
  IF r < 40 THEN "a_jour" ELSE IF r < 75 THEN "en_retard" ELSE "impaye"

\* the part of C8 that does not speak of the sign of the amount owed
OwedStructure(p, d) ==
  /\ p.statut = StatusOfDraw(d.rand_val)
  /\ p.statut = "a_jour" => p.montantDu = 0
  /\ p.statut = "en_retard" =>
       /\ d.mois_retard \in 1..6
       /\ OwedForMonths(p.montantDu, p.impotAnnuel, d.mois_retard)
  /\ p.statut = "impaye" =>
       /\ d.annees_impayees \in 1..3
       /\ p.montantDu = p.impotAnnuel * d.annees_impayees

\* C8 (amended): current implies owed = 0; late implies owed =
\* round(annual_tax / 12 * months), months in 1..6; unpaid implies owed =
\* annual_tax * years, years in 1..3; the status follows the draw r with the
\* thresholds 0.40 and 0.75; the amount owed by a late or unpaid parcel is
\* positive exactly when its annual tax is positive, and is 0 when the annual
\* tax is 0.
C8_Owed ==
  FiscalDone =>
    \A i \in 1..Len(Records) :
      /\ OwedStructure(Records[i], draws[i])
      /\ Records[i].statut # "a_jour" =>
           (Records[i].montantDu > 0 <=> Records[i].impotAnnuel > 0)
      /\ Records[i].montantDu >= 0

\* a late parcel with a positive amount owed beside a late parcel whose annual
\* tax and amount owed are 0
C8_Witness ==
  /\ FiscalDone
  /\ Len(Records) = 2
  /\ \E i, j \in 1..2 :
       /\ Records[i].statut = "en_retard" /\ Records[i].montantDu > 0
       /\ draws[i].mois_retard = 5
       /\ Records[j].statut = "en_retard" /\ Records[j].montantDu = 0
       /\ Records[j].impotAnnuel = 0

\* C8 as stated: the amount owed by a late or unpaid parcel is always positive.
C8_AsStated ==
  FiscalDone =>
    \A i \in 1..Len(Records) :
      /\ OwedStructure(Records[i], draws[i])
      /\ Records[i].statut # "a_jour" => Records[i].montantDu > 0

\* tax is superficie * prix_m2 rounded to the nearest 1000 (superficie in
\* hundredths of m2)
NearestThousand(tax, superficie, prix_m2) ==
  /\ tax % 1000 = 0
  /\ 2 * Abs(100 * tax - superficie * prix_m2) <= 100000

\* C9 (amended): the annual tax of every record is its surface area times the
\* rate drawn for it, rounded to the nearest 1000, whatever the attributes of the
\* feature hold; it is always a multiple of 1000.
C9_AnnualTax ==
  FiscalDone =>
    \A i \in 1..Len(Records) :
      NearestThousand(Records[i].impotAnnuel, Records[i].superficie,
                      draws[i].prix_m2)

\* a feature that carries a positive amount and gets a generated tax that differs
C9_Witness ==
  /\ FiscalDone
  /\ \E i \in 1..Len(Records) :
       /\ source.features[i].properties.MONTANT > 0
       /\ Records[i].impotAnnuel > 0
       /\ Records[i].impotAnnuel # source.features[i].properties.MONTANT
       /\ 100 * Records[i].impotAnnuel # Records[i].superficie * draws[i].prix_m2

\* C9 as stated: a positive monetary attribute is the annual tax; otherwise the
\* tax is generated and is a multiple of 1000.
C9_AsStated ==
  FiscalDone =>
    \A i \in 1..Len(Records) :
      IF source.features[i].properties.MONTANT > 0
      THEN Records[i].impotAnnuel = source.features[i].properties.MONTANT
      ELSE NearestThousand(Records[i].impotAnnuel, Records[i].superficie,
                           draws[i].prix_m2)

WithStatus(stat) == {i \in 1..Len(Records) : Records[i].statut = stat}

Taxes == [i \in 1..Len(Records) |-> Records[i].impotAnnuel]
Owed == [i \in 1..Len(Records) |-> Records[i].montantDu]

\* C10: the stats agree with the records of the same response: each count is
\* the number of records with that status, the three counts sum to total, total
\* revenue and total owed are the sums over the records, and the compliance rate
\* is 100 * current / total rounded to 1 decimal, 0 when total = 0.
C10_Stats ==
  FiscalDone =>
    LET st    == response.stats
        total == response.total
    IN  /\ response.status = 200
        /\ total = Len(Records)
        /\ total = Len(source.features)
        /\ st.parcellesAJour = Cardinality(WithStatus("a_jour"))
        /\ st.parcellesEnRetard = Cardinality(WithStatus("en_retard"))
        /\ st.parcellesImpayees = Cardinality(WithStatus("impaye"))
        /\ st.parcellesAJour + st.parcellesEnRetard + st.parcellesImpayees = total
        /\ st.totalRevenu = Sum(Taxes)
        /\ st.totalDu = Sum(Owed)
        /\ IF total = 0 THEN st.tauxConformite = 0
           ELSE 2 * Abs(st.tauxConformite * total - 1000 * st.parcellesAJour) <= total

\* two records, one of them current: a rate of 50.0 and sums of two terms
C10_Witness ==
  /\ FiscalDone
  /\ response.total = 2
  /\ response.stats.parcellesAJour = 1
  /\ response.stats.tauxConformite = 500
  /\ Records[1].impotAnnuel > 0 /\ Records[2].impotAnnuel > 0
  /\ response.stats.totalDu > 0
  /\ response.stats.totalRevenu > response.stats.totalDu

\* an empty shapefile: a rate of 0 and no division
C10_WitnessEmpty ==
  /\ FiscalDone
  /\ response.total = 0
  /\ response.stats.tauxConformite = 0

----------------------------------------------------------------------------
(* Faults *)

FaultFeatures ==
  <<Feature(<<"A", "n", "a">>, 0, DefaultGeometry),
    Feature(Null, 25000, Geometry(1234565, 8))>>

FaultSources ==
  {Unreadable,
   Shapefile(NoCrs, << >>),
   Shapefile(EPSG4326, <<FaultFeatures[2]>>),
   Shapefile(Projected, <<FaultFeatures[1]>>),
   Shapefile(Projected, FaultFeatures)}

InitFaults ==
  /\ source \in FaultSources
  /\ astype_null = Null
  /\ request = NoRequest
  /\ response = NoResponse
  /\ area_crs = "none"
  /\ centroid_crs = "none"
  /\ draws = << >>
  /\ fault \in Faults
  /\ tmp_file = NoFile
  /\ workers = << >>

NextFaults ==
  \/ index
  \/ show_map
  \/ get_info
  \/ get_geojson
  \/ get_features
  \/ get_sample_features
  \/ get_feature
  \/ get_bounds
  \/ get_attributes
  \/ search_features
  \/ get_largest_parcels
  \/ get_parcelles_with_status
  \/ export_geojson
  \/ run

SpecFaults == InitFaults /\ [][NextFaults]_vars

\* the endpoints that read nothing and call no library
Constant == {"/", "/api/map"}

\* the request is a lookup whose index is outside the collection read
OutOfBounds ==
  /\ request.endpoint = "/api/features/<id>"
  /\ source.readable
  /\ (request.feature_id < 0 \/ request.feature_id >= Len(source.features))

\* a fault is raised while the request is handled: the shapefile cannot be read,
\* page or per_page is no number, per_page is 0, or the reprojection or the
\* serialization the handler comes to raises
FaultRaised ==
  /\ request.endpoint \notin Constant \cup {"none"}
  /\ \/ ~source.readable
     \/ /\ request.endpoint = "/api/features"
        /\ \/ request.page.kind = "malformed"
           \/ request.per_page.kind = "malformed"
           \/ (request.per_page.kind = "int" /\ request.per_page.value = 0)
     \/ /\ ~OutOfBounds
        /\ \/ fault = "serialize"
           \/ /\ fault = "to_crs"
              /\ source.crs = Projected
              /\ request.endpoint \notin {"/api/info", "/api/attributes"}

\* the failure envelope and nothing else
Envelope(resp) ==
  /\ DOMAIN resp = {"status", "success", "error"}
  /\ resp.success = FALSE
  /\ resp.error \in STRING

C11_WitnessLibrary ==
  /\ request.endpoint = "/api/parcelles/with-status"
  /\ fault = "to_crs"
  /\ source.crs = Projected
  /\ response.status = 500
  /\ Envelope(response)

----------------------------------------------------------------------------
(* Requests handled at the same time.  app.run serves each request in a       *)
(* thread of its own; a handler's locals belong to its thread, the shapefile   *)
(* and the file /tmp/FINBiyemassi.geojson belong to all of them.  The handlers *)
(* that only read the shapefile take one step; export_geojson takes one step   *)
(* per access to the file.                                                     *)

NoGdf == [crs |-> NoCrs, rows |-> << >>]

Waiting == [pc |-> "waiting", endpoint |-> "none", gdf |-> NoGdf, response |-> NoResponse]

Done(endpoint, resp) ==
  [pc |-> "done", endpoint |-> endpoint, gdf |-> NoGdf, response |-> resp]

\* a handler that reads the shapefile and touches nothing else
ReadOnlyResponse(endpoint, src) ==
  CASE endpoint = "/api/geojson" -> get_geojson_response(src)
    [] endpoint = "/api/features/sample" -> get_sample_features_response(src)
    [] endpoint = "/api/largest" -> get_largest_parcels_response(src)

ReadOnlyEndpoints == {"/api/geojson", "/api/features/sample", "/api/largest"}

handle_read_only ==
  \E w \in DOMAIN workers, endpoint \in ReadOnlyEndpoints :
    /\ workers[w].pc = "waiting"
    /\ workers' = [workers EXCEPT ![w] = Done(endpoint, ReadOnlyResponse(endpoint, source))]
    /\ UNCHANGED <<source, astype_null, request, response, area_crs, centroid_crs,
                   draws, fault, tmp_file>>

\* export_geojson: gdf = gpd.read_file(...), converted to WGS84
export_read ==
  \E w \in DOMAIN workers :
    /\ workers[w].pc = "waiting"
    /\ workers' = [workers EXCEPT ![w] =
         IF ~source.readable
         THEN Done("/api/export/geojson", Failure("DriverError"))
         ELSE [pc |-> "loaded", endpoint |-> "/api/export/geojson",
               gdf |-> ConvertToWGS84(read_file(source)), response |-> NoResponse]]
    /\ UNCHANGED <<source, astype_null, request, response, area_crs, centroid_crs,
                   draws, fault, tmp_file>>

\* gdf.to_file(output_path): the driver first deletes the file that is there
export_to_file_delete ==
  \E w \in DOMAIN workers :
    /\ workers[w].pc = "loaded"
    /\ workers' = [workers EXCEPT ![w].pc = "deleted"]
    /\ tmp_file' = NoFile
    /\ UNCHANGED <<source, astype_null, request, response, area_crs, centroid_crs,
                   draws, fault>>

\* gdf.to_file(output_path): then it creates the file, which is incomplete
\* until the driver closes it
export_to_file_create ==
  \E w \in DOMAIN workers :
    /\ workers[w].pc = "deleted"
    /\ workers' = [workers EXCEPT ![w].pc = "writing"]
    /\ tmp_file' = [state |-> "partial", features |-> << >>, owner |-> w]
    /\ UNCHANGED <<source, astype_null, request, response, area_crs, centroid_crs,
                   draws, fault>>

\* gdf.to_file(output_path): the driver writes the features and closes the
\* file it created; if another request has deleted or replaced that file in the
\* meantime, the path keeps what the other request left
export_to_file_close ==
  \E w \in DOMAIN workers :
    /\ workers[w].pc = "writing"
    /\ workers' = [workers EXCEPT ![w].pc = "written"]
    /\ tmp_file' = IF tmp_file.state # "absent" /\ tmp_file.owner = w
                   THEN [state    |-> "complete",
                         features |-> to_json(workers[w].gdf.rows),
                         owner    |-> w]
                   ELSE tmp_file
    /\ UNCHANGED <<source, astype_null, request, response, area_crs, centroid_crs,
                   draws, fault>>

\* what a client receives of a file: its state and its features
Attachment(file) ==
  IF file.state = "absent" THEN file
  ELSE [state |-> file.state, features |-> file.features, owner |-> 0]

\* return send_file(output_path, ...), or the except clause when it raises
export_send_file ==
  \E w \in DOMAIN workers :
    /\ workers[w].pc = "written"
    /\ workers' = [workers EXCEPT ![w] =
         Done("/api/export/geojson", send_file(Attachment(tmp_file)))]
    /\ UNCHANGED <<source, astype_null, request, response, area_crs, centroid_crs,
                   draws, fault, tmp_file>>

\* the response is returned and the thread takes the next request
respond ==
  \E w \in DOMAIN workers :
    /\ workers[w].pc = "done"
    /\ workers' = [workers EXCEPT ![w] = Waiting]
    /\ UNCHANGED <<source, astype_null, request, response, area_crs, centroid_crs,
                   draws, fault, tmp_file>>

ConcurrentSources ==
  {Unreadable,
   Shapefile(EPSG4326, <<FaultFeatures[2]>>),
   Shapefile(Projected, FaultFeatures)}

InitConcurrent ==
  /\ source \in ConcurrentSources
  /\ astype_null = Null
  /\ request = NoRequest
  /\ response = NoResponse
  /\ area_crs = "none"
  /\ centroid_crs = "none"
  /\ draws = << >>
  /\ fault = NoFault
  /\ tmp_file = NoFile
  /\ workers = [w \in 1..MaxWorkers |-> Waiting]

NextConcurrent ==
  \/ handle_read_only
  \/ export_read
  \/ export_to_file_delete
  \/ export_to_file_create
  \/ export_to_file_close
  \/ export_send_file
  \/ respond

SpecConcurrent == InitConcurrent /\ [][NextConcurrent]_vars

\* the response the request gets when it is handled alone
AloneResponse(endpoint) ==
  IF endpoint = "/api/export/geojson" THEN export_geojson_response(source)
  ELSE ReadOnlyResponse(endpoint, source)

\* C12: under any interleaving of requests, every response is the one the
\* request gets when it is handled alone, and no request leaves or finds the
\* shared file in a state another request put it in.
C12_Isolation ==
  \A w \in DOMAIN workers :
    workers[w].pc = "done" =>
      workers[w].response = AloneResponse(workers[w].endpoint)

====
